---------------------------- MODULE Spec2Model ----------------------------
(***************************************************************************)
(* A model of the framing layer of the futures codec crates:               *)
(*   - the codecs (crates/codec/src/codec): BytesCodec, Lines, Length<L>   *)
(*     and the frame-size limiting wrapper Limit<Length<L>>;               *)
(*   - the Framed transport (crates/codec/src/lib.rs): the decode loop of  *)
(*     poll_next and the backpressure-aware drain poll_flush_until;        *)
(*   - the Send and SendAll futures (crates/util/src/sink.rs).             *)
(*                                                                         *)
(* Bytes are naturals in 0..255, buffers (BytesMut) are sequences of       *)
(* bytes. Every result is a record [tag, val] whose val is a sequence.     *)
(* The specifications share the variables: SpecCodec drives the codecs     *)
(* directly, SpecStream drives Framed as a Stream over a readable          *)
(* resource, SpecSink drives Framed as a Sink over a writable resource,    *)
(* SpecCancel drops futures that are pending.                              *)
(***************************************************************************)
EXTENDS Integers, Sequences, FiniteSets, TLC

VARIABLES
    \* ---- the codec object (Framed::codec, or the codec driven directly)
    codec,              \* "Bytes" | "Lines" | "Length" | "Limit" (= Limit<Length<L>>)
                        \* | "LimitUser" (= Limit over a length-framed decoder
                        \* whose SkipAheadHandler may report Err(()))
    hdr,                \* Length::<L>::HEADER_LEN = size_of::<L>(): 1 (u8) or 2 (u16)
    max_frame_size,     \* Limit::max_frame_size
    skip_ahead_state,   \* Limit::skip_ahead_state: None or Some(LenSkipAhead{remaining})
    decoder_defunct,    \* Limit::decoder_defunct
    debug_assertions,   \* the build profile: debug_assert! is checked iff TRUE
    \* ---- the codec driven directly (SpecCodec)
    c_dst,              \* the BytesMut handed to encode
    c_src,              \* the BytesMut handed to decode
    c_sent,             \* payloads whose encode returned Ok, in order
    c_recv,             \* payloads returned by decode, in order
    c_last,             \* the last call: [op, arg, pre, res, observed, stalled,
                        \* resumed, gave_up, skip]
    \* ---- Framed as a Stream (SpecStream)
    frames,             \* the items whose encodings make up the input
    io_input,           \* the bytes the readable resource will deliver
    io_pos,             \* how many of them it has delivered
    r_buffer,           \* Framed::r_buffer
    out,                \* what poll_next has returned so far (Pending left out)
    rd_last,            \* the last poll_next: [ret, ended, reads, peak]; peak
                        \* is the greatest length r_buffer had during it
    \* ---- Framed as a Sink (SpecSink)
    w_buffer,           \* Framed::w_buffer
    w_high_water_mark,  \* Framed::w_high_water_mark
    w_sent,             \* the items start_send has accepted, in order
    io_kind,            \* the writable resource: "null" (AsyncWriteNull), "any"
                        \* or "slow" (it blocks or takes a byte or more)
    io_written,         \* the bytes the resource has accepted, in order
    io_writes,          \* AsyncWriteNull's record of its poll_write calls: the
                        \* size of each (num_poll_write and last_write_size
                        \* are its length and its last element); kept for a
                        \* slow resource too
    io_flushes,         \* number of poll_flush calls made on the resource
    io_dirty,           \* the resource has accepted bytes since its poll_flush
                        \* (or poll_close) last returned Ready(Ok)
    st_kind,            \* who feeds the sink: "none" (calls made one by one),
                        \* "send" (one Send future per item) or SendAll over
                        \* a stream, "iter" (always ready) or "any"
    sa,                 \* the items to send and the future that sends them:
                        \* [items, next, stream, buffered] for SendAll and
                        \* [live, item, starts, sent0, done, kept] for Send
    sink_last           \* the last call: [op, ret, len0, ready, closed, zero,
                        \* drain, flushed, peak, oks]

codecVars  == <<codec, hdr, max_frame_size, skip_ahead_state, decoder_defunct,
                debug_assertions>>
directVars == <<c_dst, c_src, c_sent, c_recv, c_last>>
streamVars == <<frames, io_input, io_pos, r_buffer, out, rd_last>>
sinkVars   == <<w_buffer, w_high_water_mark, w_sent, io_kind, io_written,
                io_writes, io_flushes, io_dirty, st_kind, sa, sink_last>>
vars       == <<codecVars, directVars, streamVars, sinkVars>>

----------------------------------------------------------------------------
(* Bounds of the model.                                                    *)

\* most complete frames in one input / most items encoded
MaxFrames == 2
\* longest ordinary payload (bytes)
MaxPayload == 3
\* largest max_frame_size tried
MaxLimit == 3
\* most bytes one poll_read delivers (stands for the 8192-byte read buffer)
MaxRead == 2
\* largest w_high_water_mark tried
MaxHwm == 3
\* most single-byte items handed to the sink
MaxItems == 5
\* most bytes queued in all when the drain is followed to its end
MaxDrain == 4

\* u8::MAX, the largest length an 8-bit header holds
U8_MAX == 255

----------------------------------------------------------------------------
(* Values.                                                                 *)

None      == [tag |-> "None", val |-> <<>>]
Some(x)   == [tag |-> "Some", val |-> x]
Ok        == [tag |-> "Ok", val |-> <<>>]
Err(e, n) == [tag |-> e, val |-> n]
Panic(m)  == [tag |-> "Panic", val |-> <<m>>]

Min(a, b) == IF a <= b THEN a ELSE b
Max(a, b) == IF a >= b THEN a ELSE b

\* Buf::advance / BytesMut::split_to: the buffer without its first n bytes
Advance(b, n) == SubSeq(b, n + 1, Len(b))
\* the first n bytes
Take(b, n) == SubSeq(b, 1, n)

RECURSIVE Pow256(_)
Pow256(k) == IF k = 0 THEN 1 ELSE 256 * Pow256(k - 1)

\* the payload of the i-th item, n bytes long: bytes that tell the items apart
\* (and, for n <= MaxPayload, are never the newline 10)
Payload(i, n) == [j \in 1..n |-> (16 * i + j) % 256]

----------------------------------------------------------------------------
(* codec/length.rs: Length<L>, for L = u8 (h = 1) and L = u16 (h = 2).     *)
(* u32 and u64 come from the same macro with 4 and 8 header bytes.         *)

\* the largest value of the header type: L::MAX
HeaderMax(h) == IF h = 1 THEN U8_MAX ELSE Pow256(h) - 1

\* Self::to_be_bytes(this): h bytes, most significant first
to_be_bytes(h, x) == [i \in 1..h |-> (x \div Pow256(h - i)) % 256]

RECURSIVE from_be_bytes(_, _)
from_be_bytes(h, b) ==
    IF h = 0 THEN 0 ELSE 256 * from_be_bytes(h - 1, b) + b[h]

\* mutant: the header is written least significant byte first
LengthType_encode_LE(h, x, dst) ==
    IF x > HeaderMax(h)
    THEN [res |-> Err("OverflowError", <<>>), dst |-> dst]
    ELSE [res |-> Ok, dst |-> dst \o [i \in 1..h |-> (x \div Pow256(i - 1)) % 256]]

\* LengthType::encode: try_from(x) fails before anything is written
LengthType_encode(h, x, dst) ==
    IF x > HeaderMax(h)
    THEN [res |-> Err("OverflowError", <<>>), dst |-> dst]
    ELSE [res |-> Ok, dst |-> dst \o to_be_bytes(h, x)]

\* LengthType::start_decode: reads the header, consumes nothing
start_decode(h, src) == from_be_bytes(h, Take(src, h))

\* mutant: the header is truncated into the buffer before the length is checked
Length_encode_Wrapping(h, item, dst) ==
    [res |-> Ok, dst |-> (dst \o to_be_bytes(h, Len(item) % Pow256(h))) \o item]

\* Length::encode (reserve changes the capacity only)
Length_encode(h, item, dst) ==
    LET r == LengthType_encode(h, Len(item), dst)
    IN  IF r.res.tag # "Ok"
        THEN r
        ELSE [res |-> Ok, dst |-> r.dst \o item]

\* mutant: the header is consumed as soon as it is readable
Length_decode_EagerHeader(h, src) ==
    IF Len(src) < h
    THEN [res |-> None, src |-> src]
    ELSE LET len == start_decode(h, src)
         IN  IF Len(src) - h >= len
             THEN [res |-> Some(SubSeq(src, h + 1, h + len)),
                   src |-> Advance(src, h + len)]
             ELSE [res |-> None, src |-> Advance(src, h)]

\* Length::decode (usize::try_from of a u8 or u16 never fails)
Length_decode(h, src) ==
    IF Len(src) < h
    THEN [res |-> None, src |-> src]
    ELSE LET len == start_decode(h, src)
         IN  IF Len(src) - h >= len
             THEN [res |-> Some(Take(Advance(src, h), len)),
                   src |-> Advance(Advance(src, h), len)]
             ELSE [res |-> None, src |-> src]

\* mutant: what was discarded is not taken off remaining
continue_skipping_Forgets(remaining, src) ==
    IF Len(src) >= remaining
    THEN [amount |-> remaining, next |-> None]
    ELSE [amount |-> Len(src), next |-> Some(<<remaining>>)]

\* LenSkipAhead::continue_skipping: [amount, next], never Err
continue_skipping(remaining, src) ==
    IF Len(src) >= remaining
    THEN [amount |-> remaining, next |-> None]
    ELSE [amount |-> Len(src), next |-> Some(<<remaining - Len(src)>>)]

\* Length::prepare_skip_ahead, after its assert: the header is consumed and the
\* declared length is what remains to be skipped
prepare_skip_ahead(h, src) ==
    [src |-> Advance(src, h), handler |-> Some(<<start_decode(h, src)>>)]

----------------------------------------------------------------------------
(* codec/lines.rs and codec/bytes.rs.                                      *)

NewLine == 10

\* memchr(b'\n', src): the index of the first newline, 0 when there is none
RECURSIVE memchr(_, _)
memchr(src, i) ==
    IF i > Len(src) THEN 0
    ELSE IF src[i] = NewLine THEN i ELSE memchr(src, i + 1)

\* Lines::decode: the line with its newline (the bytes modelled are ASCII, so
\* String::from_utf8 succeeds and keeps them)
Lines_decode(src) ==
    LET pos == memchr(src, 1)
    IN  IF pos > 0
        THEN [res |-> Some(Take(src, pos)), src |-> Advance(src, pos)]
        ELSE [res |-> None, src |-> src]

\* Lines::encode and BytesCodec::encode: the item's bytes as they are
Raw_encode(item, dst) == [res |-> Ok, dst |-> dst \o item]

\* BytesCodec::decode: everything buffered is one item
BytesCodec_decode(src) ==
    IF Len(src) > 0
    THEN [res |-> Some(src), src |-> <<>>]
    ELSE [res |-> None, src |-> src]

----------------------------------------------------------------------------
(* codec/limit.rs: Limit<Length<L>>.                                       *)
(* The codec state is cs = [sas, defunct]; a decode returns                *)
(* [res, src, sas, defunct, observed, gone], where observed is the         *)
(* buffered length that was compared against max_frame_size (<<>> when     *)
(* none was) and gone is the number of bytes the skipping loop discarded.  *)

\* mutant: the inner codec encodes straight onto the output buffer
Limit_encode_InPlace(h, max, item, dst) ==
    LET r == Length_encode(h, item, dst)
    IN  IF r.res.tag # "Ok"
        THEN [res |-> Err("Inner", <<>>), dst |-> r.dst]
        ELSE IF Len(r.dst) - Len(dst) > max
             THEN [res |-> Err("LimitExceeded", <<Len(r.dst) - Len(dst)>>),
                   dst |-> r.dst]
             ELSE [res |-> Ok, dst |-> r.dst]

\* Limit::encode: through a temporary buffer, appended only when within budget
Limit_encode(h, max, item, dst) ==
    LET r == Length_encode(h, item, <<>>)
    IN  IF r.res.tag # "Ok"
        THEN [res |-> Err("Inner", <<>>), dst |-> dst]
        ELSE IF Len(r.dst) > max
             THEN [res |-> Err("LimitExceeded", <<Len(r.dst)>>), dst |-> dst]
             ELSE [res |-> Ok, dst |-> dst \o r.dst]

\* mutant: the buffered length is never compared against max_frame_size
Limit_decode_normal_NoLimit(h, max, src, sas, defunct) ==
    LET r == Length_decode(h, src)
    IN  [res |-> r.res, src |-> r.src, sas |-> sas, defunct |-> defunct,
         observed |-> <<>>, gone |-> 0]

\* mutant: the limit is enforced the hard way, on whatever is buffered and
\* before the inner decoder had its chance
Limit_decode_normal_HardLimit(h, max, src, sas, defunct) ==
    IF Len(src) > max /\ Len(src) > h
    THEN LET p == prepare_skip_ahead(h, src)
         IN  [res |-> Err("LimitExceeded", <<Len(p.src)>>), src |-> p.src,
              sas |-> p.handler, defunct |-> defunct,
              observed |-> <<Len(src)>>, gone |-> 0]
    ELSE LET r == Length_decode(h, src)
         IN  [res |-> r.res, src |-> r.src, sas |-> sas, defunct |-> defunct,
              observed |-> <<>>, gone |-> 0]

\* the part of Limit::decode after the skipping loop
Limit_decode_normal(h, max, src, sas, defunct) ==
    IF defunct
    THEN [res |-> Err("Defunct", <<>>), src |-> <<>>, sas |-> sas,
          defunct |-> defunct, observed |-> <<>>, gone |-> 0]
    ELSE LET r == Length_decode(h, src)
         IN  IF r.res.tag = "None" /\ Len(r.src) > max
             THEN IF ~(Len(r.src) > h)
                  THEN \* assert!(src.len() > size_of::<L>()) fails
                       [res |-> Panic("prepare_skip_ahead"), src |-> r.src,
                        sas |-> sas, defunct |-> defunct,
                        observed |-> <<Len(r.src)>>, gone |-> 0]
                  ELSE LET p == prepare_skip_ahead(h, r.src)
                       IN  [res |-> Err("LimitExceeded", <<Len(p.src)>>),
                            src |-> p.src, sas |-> p.handler,
                            defunct |-> defunct,
                            observed |-> <<Len(r.src)>>, gone |-> 0]
             ELSE [res |-> r.res, src |-> r.src, sas |-> sas,
                   defunct |-> defunct, observed |-> <<>>, gone |-> 0]

\* Limit::decode: the skipping loop, then the normal path
RECURSIVE Limit_decode(_, _, _, _, _, _)
Limit_decode(h, max, dbg, src, sas, defunct) ==
    IF sas.tag = "None"
    THEN Limit_decode_normal(h, max, src, sas, defunct)
    ELSE LET s    == continue_skipping(sas.val[1], src)
             src1 == Advance(src, s.amount)
         IN  IF ~(s.amount <= Len(src))
             THEN \* debug_assert!(amount <= src.len()), or advance past the end
                  [res |-> Panic("amount <= src.len()"), src |-> src,
                   sas |-> s.next, defunct |-> defunct, observed |-> <<>>,
                   gone |-> 0]
             ELSE IF dbg /\ ~(s.amount # 0 \/ s.next.tag = "None")
             THEN [res |-> Panic("amount != 0"), src |-> src1,
                   sas |-> s.next, defunct |-> defunct, observed |-> <<>>,
                   gone |-> s.amount]
             ELSE IF Len(src1) = 0
             THEN [res |-> None, src |-> src1, sas |-> s.next,
                   defunct |-> defunct, observed |-> <<>>, gone |-> s.amount]
             ELSE LET r == Limit_decode(h, max, dbg, src1, s.next, defunct)
                  IN  [r EXCEPT !.gone = @ + s.amount]

\* mutant: the Err(()) arm leaves decoder_defunct as it was
skip_failed_Forgets(h, max, src, defunct) ==
    Limit_decode_normal(h, max, src, None, defunct)

\* Limit::decode when continue_skipping returns Err(()): the handler was taken
\* out of skip_ahead_state, decoder_defunct is set, the loop ends and the rest
\* runs
skip_failed(h, max, src, defunct) ==
    Limit_decode_normal(h, max, src, None, TRUE)

----------------------------------------------------------------------------
(* The codec of the model, by name.                                        *)

\* Limit<C> for either inner decoder
IsLimit(c) == c \in {"Limit", "LimitUser"}

\* Encoder::encode of the codec in use
Encode(c, h, max, item, dst) ==
    CASE c = "Length" -> Length_encode(h, item, dst)
      [] IsLimit(c)   -> Limit_encode(h, max, item, dst)
      [] OTHER        -> Raw_encode(item, dst)

\* Decoder::decode of the codec in use
Decode(c, h, max, dbg, src, sas, defunct) ==
    CASE IsLimit(c) -> Limit_decode(h, max, dbg, src, sas, defunct)
      [] OTHER ->
           LET r == CASE c = "Length" -> Length_decode(h, src)
                      [] c = "Lines"  -> Lines_decode(src)
                      [] OTHER        -> BytesCodec_decode(src)
           IN  [res |-> r.res, src |-> r.src, sas |-> sas,
                defunct |-> defunct, observed |-> <<>>, gone |-> 0]

\* Decoder::decode_eof: the default, which every codec here keeps
Decode_eof(c, h, max, dbg, src, sas, defunct) ==
    Decode(c, h, max, dbg, src, sas, defunct)

----------------------------------------------------------------------------
(* The values the variables of a specification keep when it does not use   *)
(* them.                                                                   *)

IdleDirect ==
    /\ c_dst = <<>> /\ c_src = <<>> /\ c_sent = <<>> /\ c_recv = <<>>
    /\ c_last = [op |-> "init", arg |-> <<>>, pre |-> <<>>, res |-> None,
                 observed |-> <<>>, stalled |-> FALSE, resumed |-> FALSE,
                 gave_up |-> "no",
                 skip |-> [total |-> 0, gone |-> 0, rem0 |-> 0, step |-> 0,
                           done |-> <<>>]]

IdleStream ==
    /\ frames = <<>> /\ io_input = <<>> /\ io_pos = 0 /\ r_buffer = <<>>
    /\ out = <<>>
    /\ rd_last = [ret |-> None, ended |-> FALSE, reads |-> 0, peak |-> 0]

IdleSink ==
    /\ w_buffer = <<>> /\ w_high_water_mark = 1 /\ w_sent = <<>>
    /\ io_kind = "null"
    /\ io_written = <<>> /\ io_writes = <<>> /\ io_flushes = 0
    /\ io_dirty = FALSE
    /\ st_kind = "none"
    /\ sa = [items |-> <<>>, next |-> 1, stream |-> FALSE, buffered |-> None,
             live |-> FALSE, item |-> None, starts |-> 0, sent0 |-> 0,
             done |-> FALSE, kept |-> FALSE]
    /\ sink_last = [op |-> "init", ret |-> None, len0 |-> 0, ready |-> {},
                    closed |-> FALSE, zero |-> FALSE, drain |-> None,
                    flushed |-> 0, peak |-> 0, oks |-> 0]

\* Length::new() / Limit::new(inner, max_frame_size), in either build profile
InitCodecObject(kinds) ==
    /\ codec \in kinds
    /\ hdr \in IF codec \in {"Length", "Limit"} THEN {1, 2} ELSE {1}
    /\ max_frame_size \in IF IsLimit(codec) THEN 0..MaxLimit ELSE {0}
    /\ debug_assertions \in IF IsLimit(codec) THEN BOOLEAN ELSE {FALSE}
    /\ skip_ahead_state = None
    /\ decoder_defunct = FALSE

----------------------------------------------------------------------------
(* SpecCodec: encode and decode called directly on two buffers; Feed moves *)
(* encoded bytes, in order and in pieces, from the one to the other (the   *)
(* bytes travelling from a writer to a reader).                            *)

\* the payload lengths tried: ordinary ones, and those around u8::MAX
PayloadLens == (0..MaxPayload) \cup {U8_MAX, U8_MAX + 1}

InitCodec ==
    /\ InitCodecObject({"Length", "Limit", "LimitUser"})
    /\ IdleDirect /\ IdleStream /\ IdleSink

Panicked == c_last.res.tag = "Panic"

\* codec.encode(item, &mut dst)
DirectEncode ==
    /\ ~Panicked
    /\ Len(c_sent) < MaxFrames
    /\ \E n \in PayloadLens :
         LET item == Payload(Len(c_sent) + 1, n)
             r    == Encode(codec, hdr, max_frame_size, item, c_dst)
         IN  /\ c_dst' = r.dst
             /\ c_sent' = IF r.res.tag = "Ok" THEN Append(c_sent, item) ELSE c_sent
             /\ c_last' = [op |-> "encode", arg |-> item, pre |-> c_dst,
                           res |-> r.res, observed |-> <<>>,
                           stalled |-> c_last.stalled, resumed |-> FALSE,
                           gave_up |-> c_last.gave_up, skip |-> c_last.skip]
    /\ UNCHANGED <<c_src, c_recv, codecVars, streamVars, sinkVars>>

\* the longest run of ordinary frames
OrdinaryLen == MaxFrames * (2 + MaxPayload)

\* the next n encoded bytes reach the decoder's buffer: all of them, or (unless
\* a payload of u8::MAX bytes or more is among them) a piece of them
DirectFeed ==
    /\ ~Panicked
    /\ c_dst # <<>>
    /\ \E n \in {Len(c_dst)} \cup
                 (IF Len(c_dst) <= OrdinaryLen
                  THEN 1..Min(Len(c_dst), MaxRead) ELSE {}) :
         /\ c_src' = c_src \o Take(c_dst, n)
         /\ c_dst' = Advance(c_dst, n)
    /\ c_last' = [c_last EXCEPT !.op = "feed", !.resumed = FALSE]
    /\ UNCHANGED <<c_sent, c_recv, codecVars, streamVars, sinkVars>>

\* the account of the frame being skipped, kept across decode calls. r is the
\* outcome of a decode of c_src. total is the encoded size (header + declared
\* payload length, read from the buffer) of the frame last prepared for
\* skipping and gone the number of its bytes removed from the buffer so far;
\* rem0 is the handler's remaining when the decode began (0 when it was not
\* skipping), step what its skipping loop discarded, and done is <<total,
\* gone>> of the frame whose skipping this decode completed (<<>> if none)
SkipAccount(gives_up, r) ==
    LET k        == c_last.skip
        skipping == skip_ahead_state.tag = "Some"
        finished == /\ skipping /\ ~gives_up
                    /\ (r.sas.tag = "None" \/ r.res.tag = "LimitExceeded")
        at       == Advance(c_src, r.gone)
    IN  [total |-> IF r.res.tag = "LimitExceeded"
                   THEN hdr + start_decode(hdr, at) ELSE k.total,
         gone  |-> IF r.res.tag = "LimitExceeded"
                   THEN Len(at) - Len(r.src) ELSE k.gone + r.gone,
         rem0  |-> IF skipping THEN skip_ahead_state.val[1] ELSE 0,
         step  |-> r.gone,
         done  |-> IF finished THEN <<k.total, k.gone + r.gone>> ELSE <<>>]

\* codec.decode(&mut src); the handler of a LimitUser, when it is asked to
\* continue, may report that it cannot (gives_up). gave_up remembers that:
\* "now" after the decode in which it did, "before" after every later decode
DirectDecode ==
    /\ ~Panicked
    /\ \E gives_up \in IF codec = "LimitUser" /\ skip_ahead_state.tag = "Some"
                        THEN BOOLEAN ELSE {FALSE} :
         LET r == IF gives_up
                  THEN skip_failed(hdr, max_frame_size, c_src, decoder_defunct)
                  ELSE Decode(codec, hdr, max_frame_size, debug_assertions,
                              c_src, skip_ahead_state, decoder_defunct)
         IN  /\ c_src' = r.src
             /\ skip_ahead_state' = r.sas
             /\ decoder_defunct' = r.defunct
             /\ c_recv' = IF r.res.tag = "Some" THEN Append(c_recv, r.res.val)
                          ELSE c_recv
             /\ c_last' = [op |-> "decode", arg |-> <<>>, pre |-> c_src,
                           res |-> r.res, observed |-> r.observed,
                           stalled |-> IF r.res.tag = "None"
                                       THEN c_last.stalled \/ Len(c_src) >= hdr
                                       ELSE FALSE,
                           resumed |-> r.res.tag = "Some" /\ c_last.stalled,
                           gave_up |-> IF gives_up THEN "now"
                                       ELSE IF c_last.gave_up = "no" THEN "no"
                                       ELSE "before",
                           skip |-> SkipAccount(gives_up, r)]
    /\ UNCHANGED <<c_dst, c_sent, codec, hdr, max_frame_size, debug_assertions,
                   streamVars, sinkVars>>

\* a peer that frames with Length<L> and knows no limit writes the next frame
\* for a Limit decoder
DirectPeer ==
    /\ ~Panicked
    /\ IsLimit(codec)
    /\ Len(c_sent) < MaxFrames
    /\ \E n \in 0..(MaxPayload + 1) :
         LET item == Payload(Len(c_sent) + 1, n)
             r    == Length_encode(hdr, item, c_dst)
         IN  /\ c_dst' = r.dst
             /\ c_sent' = Append(c_sent, item)
             /\ c_last' = [op |-> "peer", arg |-> item, pre |-> c_dst,
                           res |-> r.res, observed |-> <<>>,
                           stalled |-> c_last.stalled, resumed |-> FALSE,
                           gave_up |-> c_last.gave_up, skip |-> c_last.skip]
    /\ UNCHANGED <<c_src, c_recv, codecVars, streamVars, sinkVars>>

NextCodec == DirectEncode \/ DirectPeer \/ DirectFeed \/ DirectDecode

SpecCodec == InitCodec /\ [][NextCodec]_vars

----------------------------------------------------------------------------
(* lib.rs: Framed as a Stream. One poll_next is one step: it runs the      *)
(* decode loop against every answer the readable resource can give and     *)
(* returns [ret, buf, sas, defunct, pos, ended, reads, peak].              *)

\* Poll::Ready(None), Poll::Pending
End     == [tag |-> "End", val |-> <<>>]
Pending == [tag |-> "Pending", val |-> <<>>]

\* the resource's answers to poll_read(cx, &mut buf) with buf of MaxRead bytes:
\* would-block, an I/O error, or the next n > 0 bytes; 0 bytes at the end only
poll_read(input, pos) ==
    {[tag |-> "Pending", n |-> 0], [tag |-> "Io", n |-> 0]} \cup
    (IF pos = Len(input)
     THEN {[tag |-> "Ready", n |-> 0]}
     ELSE {[tag |-> "Ready", n |-> k] : k \in 1..Min(MaxRead, Len(input) - pos)})

\* mutant: a read that does not fill the buffer is taken for the end of input
ended_after_ShortRead(n) == n < MaxRead

\* ended = n == 0
ended_after(n) == n = 0

\* mutant: at the end of input whatever is buffered is dropped silently
at_eof_Silent(c, h, max, dbg, d) == [ret |-> End, d |-> d]

\* poll_next once decode returned None and the input has ended: d is that
\* decode's result; gives [ret, d] with d the last decode made
at_eof(c, h, max, dbg, d) ==
    IF d.src = <<>>
    THEN [ret |-> End, d |-> d]
    ELSE LET e == Decode_eof(c, h, max, dbg, d.src, d.sas, d.defunct)
         IN  IF e.res.tag = "None"
             THEN [ret |-> IF e.src = <<>> THEN End
                           ELSE Err("UnexpectedEof", <<>>),
                   d |-> e]
             ELSE [ret |-> e.res, d |-> e]

\* mutant: the bytes read replace what was buffered
extend_from_slice_Replaces(buf, bytes) == bytes

\* this.r_buffer.extend_from_slice(&buf[..n])
extend_from_slice(buf, bytes) == buf \o bytes

\* Framed::poll_next from the top of its loop
RECURSIVE poll_next(_, _, _, _, _, _, _, _, _, _, _, _)
poll_next(c, h, max, dbg, input, buf, sas, defunct, pos, ended, reads, peak) ==
    LET d      == Decode(c, h, max, dbg, buf, sas, defunct)
        ret(r, e) == [ret |-> r, buf |-> e.src, sas |-> e.sas,
                      defunct |-> e.defunct, pos |-> pos, ended |-> ended,
                      reads |-> reads, peak |-> peak]
    IN  IF d.res.tag # "None"
        THEN \* an item, a codec error (map_err(Error::Codec)?) or a panic
             {ret(d.res, d)}
        ELSE IF ended
        THEN LET a == at_eof(c, h, max, dbg, d) IN {ret(a.ret, a.d)}
        ELSE UNION {
               CASE r.tag = "Pending" -> {ret(Pending, d)}
                 [] r.tag = "Io"      -> {ret(Err("Io", <<>>), d)}
                 [] OTHER ->
                      LET grown == extend_from_slice(d.src,
                                       SubSeq(input, pos + 1, pos + r.n))
                      IN  poll_next(c, h, max, dbg, input, grown,
                                    d.sas, d.defunct, pos + r.n,
                                    ended_after(r.n), reads + 1,
                                    Max(peak, Len(grown)))
               : r \in poll_read(input, pos) }

----------------------------------------------------------------------------
(* SpecStream: a peer's frames, possibly cut short, read through Framed.   *)

\* the i-th item a peer sends, with a payload of n bytes: a line ends in its
\* newline, every other item is its payload
Item(c, i, n) ==
    IF c = "Lines" THEN Payload(i, n) \o <<NewLine>> ELSE Payload(i, n)

\* what the peer's encoder makes of an item; the peer of a Limit reader frames
\* with the inner Length<L> and has no limit
PeerEncode(c, h, item, dst) ==
    (IF c = "Limit" THEN Length_encode(h, item, dst)
     ELSE Encode(c, h, 0, item, dst)).dst

\* the bytes of a sequence of items, encoded in order into one buffer
RECURSIVE EncodeAll(_, _, _)
EncodeAll(c, h, items) ==
    IF items = <<>> THEN <<>>
    ELSE PeerEncode(c, h, items[Len(items)],
                    EncodeAll(c, h, Take(items, Len(items) - 1)))

\* sequences of at most k payload lengths
RECURSIVE LenLists(_)
LenLists(k) ==
    IF k = 0 THEN {<<>>}
    ELSE LET shorter == LenLists(k - 1)
         IN  shorter \cup {Append(l, n) : l \in shorter, n \in 0..MaxPayload}

\* Framed::new(io, codec) over an input of complete frames followed by a tail:
\* nothing, or a further frame cut before its end (never for BytesCodec, whose
\* every non-empty byte string is a frame)
InitStream ==
    /\ InitCodecObject({"Bytes", "Lines", "Length", "Limit"})
    /\ \E l \in LenLists(MaxFrames) :
         /\ frames = [i \in 1..Len(l) |->
                        Item(codec, i, IF codec = "Bytes" THEN l[i] + 1 ELSE l[i])]
         /\ \E n \in 0..MaxPayload :
              LET last == PeerEncode(codec, hdr, Item(codec, Len(l) + 1, n), <<>>)
              IN  \E keep \in 0..(IF codec = "Bytes" THEN 0 ELSE Len(last) - 1) :
                    /\ keep = 0 => n = 0
                    /\ io_input = EncodeAll(codec, hdr, frames) \o Take(last, keep)
    /\ io_pos = 0 /\ r_buffer = <<>> /\ out = <<>>
    /\ rd_last = [ret |-> None, ended |-> FALSE, reads |-> 0, peak |-> 0]
    /\ IdleDirect /\ IdleSink

\* the consumer stops at the end of the sequence, at an I/O error and at a panic
Terminal(r) == r.tag \in {"End", "UnexpectedEof", "Io", "Panic"}

StreamDone == out # <<>> /\ Terminal(out[Len(out)])

\* the consumer polls the stream once (try_next)
PollNext ==
    /\ ~StreamDone
    /\ \E o \in poll_next(codec, hdr, max_frame_size, debug_assertions, io_input,
                          r_buffer, skip_ahead_state, decoder_defunct, io_pos,
                          FALSE, 0, Len(r_buffer)) :
         /\ r_buffer' = o.buf
         /\ skip_ahead_state' = o.sas
         /\ decoder_defunct' = o.defunct
         /\ io_pos' = o.pos
         /\ out' = IF o.ret.tag = "Pending" THEN out ELSE Append(out, o.ret)
         /\ rd_last' = [ret |-> o.ret, ended |-> o.ended, reads |-> o.reads,
                        peak |-> o.peak]
    /\ UNCHANGED <<codec, hdr, max_frame_size, debug_assertions, frames,
                   io_input, directVars, sinkVars>>

NextStream == PollNext

SpecStream == InitStream /\ [][NextStream]_vars

----------------------------------------------------------------------------
(* lib.rs: Framed as a Sink. The operators work on f = [buf, written,      *)
(* writes, flushes, dirty, sent, ready, zero, peak, oks]: w_buffer, what   *)
(* the writable resource has seen, the items accepted, the buffer lengths  *)
(* at which poll_ready returned Ready(Ok) during the current call, whether *)
(* a poll_write of the current call accepted zero bytes, the greatest      *)
(* length w_buffer had during the current call, and how many times         *)
(* poll_ready returned Ready(Ok) during it. Each gives the set             *)
(* of its outcomes [ret, f], one per answer of the resource;               *)
(* Poll::Ready(Ok(())) is Ok and Poll::Pending is Pending.                 *)

\* the resource's answers to poll_write(cx, buf) with buf of len bytes:
\* AsyncWriteNull takes all of it; any other resource would block, fails, or
\* takes n of the bytes, 0 <= n <= len; a slow resource is one whose every
\* answer other than would-block takes at least one byte
poll_write(len) ==
    CASE io_kind = "null" -> {[tag |-> "Ready", n |-> len]}
      [] io_kind = "slow" ->
           {[tag |-> "Pending", n |-> 0]} \cup
           {[tag |-> "Ready", n |-> k] : k \in 1..len}
      [] OTHER ->
           {[tag |-> "Pending", n |-> 0], [tag |-> "Io", n |-> 0]} \cup
           {[tag |-> "Ready", n |-> k] : k \in 0..len}

\* the resource's answers to poll_flush(cx) and to poll_close(cx)
inner_poll_flush ==
    IF io_kind = "null" THEN {Ok} ELSE {Ok, Pending, Err("Io", <<>>)}

inner_poll_close == inner_poll_flush

\* mutant: the drain also runs when the buffer is exactly at the limit
over_limit_AtLimit(len, limit) == len >= limit

\* while this.w_buffer.len() > limit
over_limit(len, limit) == len > limit

\* mutant: a write that accepts nothing is taken for would-block
num_write_zero_Retries(f) == [ret |-> Pending, f |-> [f EXCEPT !.zero = TRUE]]

\* if num_write == 0: the drain ends with an error, the buffer as it is
num_write_zero(f) ==
    [ret |-> Err("UnexpectedEof", <<>>), f |-> [f EXCEPT !.zero = TRUE]]

\* mutant: the buffer is emptied whatever the resource accepted
num_write_advance_Clears(f, n) ==
    [f EXCEPT !.buf     = <<>>,
              !.written = @ \o Take(f.buf, n),
              !.dirty   = TRUE,
              !.writes  = IF io_kind # "any" THEN Append(@, n) ELSE @]

\* the resource accepted the first n bytes: this.w_buffer.advance(num_write)
num_write_advance(f, n) ==
    [f EXCEPT !.buf     = Advance(@, n),
              !.written = @ \o Take(f.buf, n),
              !.dirty   = TRUE,
              !.writes  = IF io_kind # "any" THEN Append(@, n) ELSE @]

\* the while loop of poll_flush_until
RECURSIVE poll_flush_until_loop(_, _)
poll_flush_until_loop(limit, f) ==
    IF ~over_limit(Len(f.buf), limit)
    THEN {[ret |-> Ok, f |-> f]}
    ELSE UNION {
           CASE w.tag = "Pending" -> {[ret |-> Pending, f |-> f]}
             [] w.tag = "Io"      -> {[ret |-> Err("Io", <<>>), f |-> f]}
             [] w.tag = "Ready" /\ w.n = 0 -> {num_write_zero(f)}
             [] OTHER -> poll_flush_until_loop(limit, num_write_advance(f, w.n))
           : w \in poll_write(Len(f.buf)) }

\* the resource answered r to a poll_flush: what it had accepted is flushed
\* once the answer is Ready(Ok)
inner_flushed(f, r) ==
    [f EXCEPT !.flushes = @ + 1,
              !.dirty   = IF r.tag = "Ok" THEN FALSE ELSE @]

\* mutant: the resource is flushed after every drain
len_changed_Always(orig_len, len) == TRUE

\* if orig_len != this.w_buffer.len()
len_changed(orig_len, len) == orig_len # len

\* Framed::poll_flush_until: the resource is flushed if the drain reached the
\* limit and changed the length of the buffer
poll_flush_until(limit, f) ==
    UNION {
      IF d.ret.tag = "Ok" /\ len_changed(Len(f.buf), Len(d.f.buf))
      THEN {[ret |-> r, f |-> inner_flushed(d.f, r)] : r \in inner_poll_flush}
      ELSE {d}
    : d \in poll_flush_until_loop(limit, f) }

\* usize::MAX is 2^32 - 1 or 2^64 - 1 by target; the largest integer TLC
\* holds, 2^31 - 1, stands for it: like them it is beyond every buffer length
\* met here
USIZE_MAX == 2147483647

\* mutant: the threshold is the mark itself
high_water_mark_Whole(hwm) == hwm

\* let high_water_mark = self.w_high_water_mark - 1, where 0 - 1 wraps around
\* to usize::MAX
high_water_mark(hwm) == IF hwm = 0 THEN USIZE_MAX ELSE hwm - 1

\* Framed::poll_ready; with overflow checks (the debug profile) 0 - 1 panics
poll_ready(f) ==
    IF w_high_water_mark = 0 /\ debug_assertions
    THEN {[ret |-> Panic("attempt to subtract with overflow"), f |-> f]}
    ELSE { IF r.ret.tag = "Ok"
           THEN [r EXCEPT !.f.ready = @ \cup {Len(r.f.buf)},
                          !.f.oks = @ + 1]
           ELSE r
         : r \in poll_flush_until(high_water_mark(w_high_water_mark), f) }

\* Framed::poll_flush
poll_flush(f) == poll_flush_until(0, f)

\* the resource answered c to a poll_close: closing flushes
inner_closed(f, c) == [f EXCEPT !.dirty = IF c.tag = "Ok" THEN FALSE ELSE @]

\* mutant: the resource is closed whatever the drain returned
poll_close_Eager(f) ==
    UNION {
      {[ret |-> c, f |-> inner_closed(r.f, c), closed |-> TRUE,
        drain |-> r.ret] : c \in inner_poll_close}
    : r \in poll_flush(f) }

\* Framed::poll_close gives [ret, f, closed, drain]: drain is what poll_flush
\* returned and closed tells whether the resource's poll_close was called
poll_close(f) ==
    UNION {
      IF r.ret.tag # "Ok"
      THEN {[ret |-> r.ret, f |-> r.f, closed |-> FALSE, drain |-> r.ret]}
      ELSE {[ret |-> c, f |-> inner_closed(r.f, c), closed |-> TRUE,
             drain |-> r.ret] : c \in inner_poll_close}
    : r \in poll_flush(f) }

\* Framed::start_send: the codec encodes the item onto w_buffer
start_send(item, f) ==
    LET e == Encode(codec, hdr, max_frame_size, item, f.buf)
    IN  [ret |-> e.res,
         f   |-> [f EXCEPT !.buf  = e.dst,
                           !.sent = IF e.res.tag = "Ok" THEN Append(@, item)
                                    ELSE @,
                           !.peak = Max(@, Len(e.dst))]]

----------------------------------------------------------------------------
(* util/sink.rs: Send. s.item is Send::item, s.starts counts the calls of  *)
(* start_send made for this future, s.sent0 is the number of items the     *)
(* sink had accepted when it was made, s.done tells whether a poll of it   *)
(* has returned Ready and s.kept whether a poll of it has put the item     *)
(* back. Outcomes are [ret, sa, f].                                        *)

\* mutant: the item taken out of the future is not put back
item_restore_Forgets(s, item) == s

\* this.item = Some(item)
item_restore(s, item) == [s EXCEPT !.item = Some(item)]

\* Send::poll; taken is the future once this.item.take() has emptied it
Send_poll(s, f) ==
    IF s.item.tag = "Some"
    THEN LET item  == s.item.val
             taken == [s EXCEPT !.item = None]
         IN  UNION {
               CASE r.ret.tag = "Ok" ->
                      LET e  == start_send(item, r.f)
                          s1 == [taken EXCEPT !.starts = @ + 1]
                      IN  IF e.ret.tag # "Ok"
                          THEN {[ret |-> e.ret, sa |-> s1, f |-> e.f]}
                          ELSE {[ret |-> q.ret, sa |-> s1, f |-> q.f]
                                  : q \in poll_flush(e.f)}
                 [] r.ret.tag = "Pending" ->
                      {[ret |-> Pending, sa |-> item_restore(taken, item),
                        f |-> r.f]}
                 [] OTHER -> {[ret |-> r.ret, sa |-> taken, f |-> r.f]}
               : r \in poll_ready(f) }
    ELSE {[ret |-> q.ret, sa |-> s, f |-> q.f] : q \in poll_flush(f)}

----------------------------------------------------------------------------
(* util/sink.rs: SendAll. s = [items, next, stream, buffered]: the source  *)
(* stream (its items and the index of the next one), whether               *)
(* SendAll::stream is Some, and SendAll::buffered; s.done tells whether a  *)
(* poll of the future has returned Ready and s.kept whether a poll of it   *)
(* has left an item in SendAll::buffered. Outcomes are [ret, sa, f].       *)

\* the source stream's answers to poll_next: stream::iter is always ready;
\* any other stream may also be pending or yield an error
stream_poll_next(s) ==
    LET x == IF s.next <= Len(s.items) THEN Some(s.items[s.next]) ELSE End
    IN  IF st_kind = "iter" THEN {x} ELSE {x, Pending, Err("Stream", <<>>)}

\* mutant: an item the sink is not ready for is dropped
buffered_store_Drops(s, item) == s

\* self.buffered = Some(item)
buffered_store(s, item) == [s EXCEPT !.buffered = Some(item)]

\* SendAll::try_start_send
try_start_send(item, s, f) ==
    IF debug_assertions /\ s.buffered.tag # "None"
    THEN {[ret |-> Panic("self.buffered.is_none()"), sa |-> s, f |-> f]}
    ELSE { CASE r.ret.tag = "Ok" ->
                  LET e == start_send(item, r.f)
                  IN  [ret |-> e.ret, sa |-> s, f |-> e.f]
             [] r.ret.tag = "Pending" ->
                  [ret |-> Pending, sa |-> buffered_store(s, item), f |-> r.f]
             [] OTHER -> [ret |-> r.ret, sa |-> s, f |-> r.f]
         : r \in poll_ready(f) }

\* SendAll::poll from the top of its while loop
RECURSIVE SendAll_loop(_, _)
SendAll_loop(s, f) ==
    IF ~s.stream
    THEN {[ret |-> Ok, sa |-> s, f |-> f]}
    ELSE UNION {
           CASE x.tag = "Some" ->
                  UNION { IF r.ret.tag = "Ok" THEN SendAll_loop(r.sa, r.f)
                          ELSE {r}
                        : r \in try_start_send(x.val,
                                               [s EXCEPT !.next = @ + 1], f) }
             [] x.tag = "End" ->
                  {[ret |-> r.ret, sa |-> [s EXCEPT !.stream = FALSE],
                    f |-> r.f] : r \in poll_flush(f)}
             [] x.tag = "Pending" ->
                  {[ret |-> IF r.ret.tag = "Ok" THEN Pending ELSE r.ret,
                    sa |-> s, f |-> r.f] : r \in poll_flush(f)}
             [] OTHER -> {[ret |-> x, sa |-> s, f |-> f]}
           : x \in stream_poll_next(s) }

\* SendAll::poll
SendAll_poll(s, f) ==
    IF s.buffered.tag = "Some"
    THEN UNION { IF r.ret.tag = "Ok" THEN SendAll_loop(r.sa, r.f) ELSE {r}
               : r \in try_start_send(s.buffered.val,
                                      [s EXCEPT !.buffered = None], f) }
    ELSE SendAll_loop(s, f)

----------------------------------------------------------------------------
(* SpecSink: Framed::new(io, codec) with w_high_water_mark set by its      *)
(* owner, fed either call by call (poll_ready, start_send, poll_flush,     *)
(* poll_close in any order) or by one SendAll future polled to the end.    *)

\* the items to send: single bytes through BytesCodec (as in the test
\* send_high_water_mark), a few payloads of any length through Length<u8>
SinkItems ==
    IF codec = "Bytes"
    THEN {[i \in 1..n |-> Payload(i, 1)] : n \in 0..MaxItems}
    ELSE {[i \in 1..Len(l) |-> Payload(i, l[i])] : l \in LenLists(MaxFrames)}

InitSink ==
    /\ codec \in {"Bytes", "Length"}
    /\ hdr = 1 /\ max_frame_size = 0
    /\ skip_ahead_state = None /\ decoder_defunct = FALSE
    /\ w_buffer = <<>> /\ w_sent = <<>>
    /\ w_high_water_mark \in 0..MaxHwm
    /\ debug_assertions \in IF w_high_water_mark = 0 THEN BOOLEAN ELSE {TRUE}
    /\ io_kind \in {"null", "any"}
    /\ io_written = <<>> /\ io_writes = <<>> /\ io_flushes = 0
    /\ io_dirty = FALSE
    /\ st_kind \in {"none", "send", "iter", "any"}
    /\ \E items \in SinkItems :
         sa = [items |-> items, next |-> 1,
               stream |-> st_kind \in {"iter", "any"}, buffered |-> None,
               live |-> FALSE, item |-> None, starts |-> 0, sent0 |-> 0,
               done |-> FALSE, kept |-> FALSE]
    /\ sink_last = [op |-> "init", ret |-> None, len0 |-> 0, ready |-> {},
                    closed |-> FALSE, zero |-> FALSE, drain |-> None,
                    flushed |-> 0, peak |-> 0, oks |-> 0]
    /\ IdleDirect /\ IdleStream

\* Framed and its resource as the operators above take them
Sink_f ==
    [buf |-> w_buffer, written |-> io_written, writes |-> io_writes,
     flushes |-> io_flushes, dirty |-> io_dirty, sent |-> w_sent,
     ready |-> {}, zero |-> FALSE, peak |-> Len(w_buffer), oks |-> 0]

\* the call op is over with outcome o = [ret, f]; closed tells whether it
\* called the resource's poll_close, drain is what its drain returned, and
\* flushed counts its calls of the resource's poll_flush
SinkReturn(op, o, closed, drain) ==
    /\ w_buffer' = o.f.buf
    /\ io_written' = o.f.written
    /\ io_writes' = o.f.writes
    /\ io_flushes' = o.f.flushes
    /\ io_dirty' = o.f.dirty
    /\ w_sent' = o.f.sent
    /\ sink_last' = [op |-> op, ret |-> o.ret, len0 |-> Len(w_buffer),
                     ready |-> o.f.ready, closed |-> closed,
                     zero |-> o.f.zero, drain |-> drain,
                     flushed |-> o.f.flushes - io_flushes, peak |-> o.f.peak,
                     oks |-> o.f.oks]
    /\ UNCHANGED <<codecVars, directVars, streamVars, w_high_water_mark,
                   io_kind, st_kind>>

\* a step of the caller that calls nothing of Framed
SinkUntouched(op) ==
    /\ sink_last' = [op |-> op, ret |-> None, len0 |-> Len(w_buffer),
                     ready |-> {}, closed |-> FALSE, zero |-> FALSE,
                     drain |-> None, flushed |-> 0, peak |-> Len(w_buffer),
                     oks |-> 0]
    /\ UNCHANGED <<codecVars, directVars, streamVars, w_buffer,
                   w_high_water_mark, w_sent, io_kind, io_written, io_writes,
                   io_flushes, io_dirty, st_kind>>

SinkPanicked == sink_last.ret.tag = "Panic"

PollReady ==
    /\ st_kind = "none" /\ ~SinkPanicked
    /\ \E o \in poll_ready(Sink_f) : SinkReturn("poll_ready", o, FALSE, o.ret)
    /\ UNCHANGED sa

\* the caller hands the next of its items to start_send
StartSend ==
    /\ st_kind = "none" /\ ~SinkPanicked
    /\ sa.next <= Len(sa.items)
    /\ SinkReturn("start_send", start_send(sa.items[sa.next], Sink_f), FALSE,
                  None)
    /\ sa' = [sa EXCEPT !.next = @ + 1]

PollFlush ==
    /\ st_kind = "none" /\ ~SinkPanicked
    /\ \E o \in poll_flush(Sink_f) : SinkReturn("poll_flush", o, FALSE, o.ret)
    /\ UNCHANGED sa

PollClose ==
    /\ st_kind = "none" /\ ~SinkPanicked
    /\ \E o \in poll_close(Sink_f) : SinkReturn("poll_close", o, o.closed, o.drain)
    /\ UNCHANGED sa

\* the executor polls send_all(&mut stream)
SendAllPoll ==
    /\ st_kind \in {"iter", "any"} /\ ~SinkPanicked
    /\ \E o \in SendAll_poll(sa, Sink_f) :
         /\ SinkReturn("send_all", o, FALSE, None)
         /\ sa' = [o.sa EXCEPT !.done = @ \/ o.ret.tag # "Pending",
                                !.kept = @ \/ o.sa.buffered.tag = "Some"]

\* send_unpin(item): a Send future for the caller's next item
SendNew ==
    /\ st_kind = "send" /\ ~SinkPanicked
    /\ ~sa.live /\ sa.next <= Len(sa.items)
    /\ sa' = [sa EXCEPT !.live = TRUE, !.item = Some(sa.items[sa.next]),
                        !.next = @ + 1, !.starts = 0, !.sent0 = Len(w_sent),
                        !.done = FALSE, !.kept = FALSE]
    /\ SinkUntouched("send_new")

\* the executor polls the Send future
SendPoll ==
    /\ st_kind = "send" /\ ~SinkPanicked
    /\ sa.live
    /\ \E o \in Send_poll(sa, Sink_f) :
         /\ SinkReturn("send", o, FALSE, None)
         /\ sa' = [o.sa EXCEPT !.done = @ \/ o.ret.tag # "Pending",
                                !.kept = @ \/ o.sa.item.tag = "Some"]

\* the caller drops the Send future: done with it, or abandoning it (the
\* record of its last poll stays in sink_last)
SendDrop ==
    /\ st_kind = "send" /\ ~SinkPanicked
    /\ sa.live
    /\ sa' = [sa EXCEPT !.live = FALSE, !.item = None]
    /\ sink_last' = [sink_last EXCEPT !.op = "send_drop"]
    /\ UNCHANGED <<codecVars, directVars, streamVars, w_buffer,
                   w_high_water_mark, w_sent, io_kind, io_written, io_writes,
                   io_flushes, io_dirty, st_kind>>

NextSink ==
    \/ PollReady \/ StartSend \/ PollFlush \/ PollClose
    \/ SendNew \/ SendPoll \/ SendDrop
    \/ SendAllPoll

SpecSink == InitSink /\ [][NextSink]_vars

----------------------------------------------------------------------------
(* SpecCancel: the two futures a caller may drop while they are pending:   *)
(* the poll_next of a Framed that is read (every PollNext is a poll of a   *)
(* new future, so a pending one is abandoned whenever another follows) and *)
(* the Send of a Framed that is written.                                   *)

InitCancel == InitStream \/ (InitSink /\ st_kind = "send")

NextCancel ==
    \/ st_kind = "none" /\ PollNext
    \/ SendNew \/ SendPoll \/ SendDrop

SpecCancel == InitCancel /\ [][NextCancel]_vars

----------------------------------------------------------------------------
(* SpecDrain: items queued by start_send and drained by poll_flush, polled *)
(* again and again, into a slow resource. The executor polls again after   *)
(* every would-block (the resource wakes the task), and the resource does  *)
(* not block for ever: while bytes are buffered, a poll in which it takes  *)
(* some of them comes in the end.                                          *)

InitDrain ==
    /\ codec \in {"Bytes", "Length"}
    /\ hdr = 1 /\ max_frame_size = 0
    /\ skip_ahead_state = None /\ decoder_defunct = FALSE
    /\ debug_assertions = TRUE
    /\ w_buffer = <<>> /\ w_sent = <<>>
    /\ w_high_water_mark \in 1..MaxHwm
    /\ io_kind = "slow"
    /\ io_written = <<>> /\ io_writes = <<>> /\ io_flushes = 0
    /\ io_dirty = FALSE
    /\ st_kind = "none"
    /\ \E items \in SinkItems :
         /\ Len(EncodeAll(codec, hdr, items)) <= MaxDrain
         /\ sa = [items |-> items, next |-> 1, stream |-> FALSE,
                  buffered |-> None, live |-> FALSE, item |-> None,
                  starts |-> 0, sent0 |-> 0, done |-> FALSE, kept |-> FALSE]
    /\ sink_last = [op |-> "init", ret |-> None, len0 |-> 0, ready |-> {},
                    closed |-> FALSE, zero |-> FALSE, drain |-> None,
                    flushed |-> 0, peak |-> 0, oks |-> 0]
    /\ IdleDirect /\ IdleStream

\* a poll_flush in which the resource took at least one byte
PollFlushAccepted == PollFlush /\ Len(io_written') > Len(io_written)

NextDrain == StartSend \/ PollFlush

SpecDrain ==
    /\ InitDrain /\ [][NextDrain]_vars
    /\ WF_vars(PollFlush) /\ WF_vars(PollFlushAccepted)

----------------------------------------------------------------------------
(* Claims about the codecs, checked under SpecCodec.                       *)

\* is a prefix of
IsPrefix(a, b) == Len(a) <= Len(b) /\ a = Take(b, Len(a))

\* C5: round trip through Length<L>: the payloads decoded are the payloads
\* encoded, in order, and once every encoded byte has reached the decoder and
\* decode has no more item to give, all payloads were returned and no byte is
\* left undecoded.
C5_RoundTrip ==
    codec = "Length" =>
        /\ IsPrefix(c_recv, c_sent)
        /\ (c_last.op = "decode" /\ c_last.res.tag = "None" /\ c_dst = <<>>)
               => (c_recv = c_sent /\ c_src = <<>>)

\* C5 witness: two payloads went through a 16-bit header and nothing is left
C5_Witness ==
    /\ codec = "Length" /\ hdr = 2
    /\ Len(c_sent) >= 2 /\ c_recv = c_sent /\ Len(c_sent[2]) > 0
    /\ c_last.op = "decode" /\ c_last.res.tag = "None"
    /\ c_dst = <<>> /\ c_src = <<>>

\* the number of payloads returned before the last decode call
RecvBefore == Len(c_recv) - (IF c_last.res.tag = "Some" THEN 1 ELSE 0)

\* C6: Length::decode on a buffer that holds less than header + declared
\* payload returns "no item yet" and leaves the buffer as it was; on a buffer
\* that holds the whole frame it returns exactly the frame's payload and removes
\* exactly header + payload bytes from the front.
C6_PartialFrameStable ==
    (codec = "Length" /\ c_last.op = "decode") =>
        IF RecvBefore + 1 > Len(c_sent)
        THEN c_last.res = None /\ c_src = c_last.pre
        ELSE LET payload == c_sent[RecvBefore + 1]
                 need    == hdr + Len(payload)
             IN  IF Len(c_last.pre) < need
                 THEN c_last.res = None /\ c_src = c_last.pre
                 ELSE /\ c_last.res = Some(payload)
                      /\ c_src = Advance(c_last.pre, need)

\* C6 witness: a decode completed a frame that an earlier decode, with the
\* header buffered and the payload not, had answered with "no item yet"
C6_Witness ==
    /\ codec = "Length" /\ c_last.op = "decode"
    /\ c_last.res.tag = "Some" /\ Len(c_last.res.val) >= 2
    /\ c_last.resumed
    /\ c_src # <<>>

\* C7: Length::encode of a payload whose length does not fit the header type
\* fails with OverflowError and leaves the destination buffer as it was.
C7_OverflowWritesNothing ==
    (codec = "Length" /\ c_last.op = "encode"
       /\ Len(c_last.arg) > HeaderMax(hdr)) =>
        /\ c_last.res = Err("OverflowError", <<>>)
        /\ c_dst = c_last.pre

\* C7 witness: 256 bytes were refused by an 8-bit header, with bytes already in
\* the destination
C7_Witness ==
    /\ codec = "Length" /\ hdr = 1 /\ c_last.op = "encode"
    /\ Len(c_last.arg) = U8_MAX + 1
    /\ c_last.pre # <<>>

\* C10 (as claimed): the LimitExceeded error of Limit::decode carries the
\* buffered length that was compared against max_frame_size.
C10_CarriesObservedLength ==
    (codec = "Limit" /\ c_last.op = "decode"
       /\ c_last.res.tag = "LimitExceeded") =>
        c_last.res.val = c_last.observed

----------------------------------------------------------------------------
(* Claims about Framed as a Stream, checked under SpecStream.              *)

\* the complete frames of the input, as poll_next returns them
CompleteItems == [i \in 1..Len(frames) |-> Some(frames[i])]

\* the bytes of the input after its complete frames
CutTail == Advance(io_input, Len(EncodeAll(codec, hdr, frames)))

\* the resource failed (poll_read returned an error)
IoFailed == out # <<>> /\ out[Len(out)].tag = "Io"

\* the last poll_next saw the end of input and returned no item
AtEnd == rd_last.ended /\ rd_last.ret.tag # "Some"

\* the bytes of the items returned so far
RECURSIVE OutBytes(_)
OutBytes(o) ==
    IF o = <<>> THEN <<>>
    ELSE OutBytes(Take(o, Len(o) - 1)) \o
         (IF o[Len(o)].tag = "Some" THEN o[Len(o)].val ELSE <<>>)

\* C3: an input of k complete frames and a non-empty tail that completes no
\* frame (Lines, Length<L>): poll_next returns the k items in order and then the
\* I/O error UnexpectedEof, never the tail as an item and never a clean end.
C3_TruncatedTail ==
    (codec \in {"Lines", "Length"} /\ CutTail # <<>> /\ ~IoFailed) =>
        LET want == CompleteItems \o <<Err("UnexpectedEof", <<>>)>>
        IN  /\ IsPrefix(out, want)
            /\ AtEnd => out = want

\* C3 witness: two lines and an unfinished third: two items, then the error
C3_Witness ==
    /\ codec = "Lines" /\ Len(frames) = 2 /\ Len(CutTail) >= 2
    /\ out = CompleteItems \o <<Err("UnexpectedEof", <<>>)>>

\* C4: an input of exactly k complete frames: poll_next returns the k items in
\* order and then the end of the sequence, however the resource splits the
\* bytes into reads (for BytesCodec, whose frames are whatever is buffered, the
\* items are the input's bytes in order); the end is returned only after a
\* zero-byte read and with an empty read buffer.
C4_CleanEnd ==
    (codec \in {"Bytes", "Lines", "Length"} /\ CutTail = <<>> /\ ~IoFailed) =>
        /\ codec # "Bytes" =>
             /\ IsPrefix(out, CompleteItems \o <<End>>)
             /\ AtEnd => out = CompleteItems \o <<End>>
        /\ codec = "Bytes" =>
             /\ IsPrefix(OutBytes(out), io_input)
             /\ \A i \in DOMAIN out : out[i].tag \in {"Some", "End"}
             /\ AtEnd => (OutBytes(out) = io_input /\ out[Len(out)] = End)
        /\ rd_last.ret = End => (rd_last.ended /\ r_buffer = <<>>)

\* C4 witness: two frames with 16-bit headers were returned and the sequence
\* ended, after more reads than one
C4_Witness ==
    /\ codec = "Length" /\ hdr = 2 /\ Len(frames) = 2 /\ CutTail = <<>>
    /\ Len(frames[1]) > 0
    /\ out = CompleteItems \o <<End>>
    /\ rd_last.ended /\ r_buffer = <<>>

\* the encoded size of a frame of Length<L>
FrameSize(payload) == hdr + Len(payload)

\* the input is one frame over the budget followed by one within it
OversizedThenGood ==
    /\ codec = "Limit" /\ Len(frames) = 2 /\ CutTail = <<>>
    /\ FrameSize(frames[1]) > max_frame_size
    /\ FrameSize(frames[2]) <= max_frame_size

\* C8 (as claimed, from the point where the error was reported): after the
\* limit-exceeded error for the oversized frame, poll_next returns the second
\* frame's payload intact, and then the end of the sequence.
C8_RecoversAfterOversized ==
    (OversizedThenGood /\ out # <<>> /\ out[1].tag = "LimitExceeded"
       /\ ~IoFailed) =>
        /\ IsPrefix(Advance(out, 1), <<Some(frames[2]), End>>)
        /\ AtEnd => Advance(out, 1) = <<Some(frames[2]), End>>

\* C9 (as claimed): every item returned through Limit comes from a frame of at
\* most max_frame_size bytes.
C9_ItemsWithinBudget ==
    codec = "Limit" =>
        \A i \in DOMAIN out :
            out[i].tag = "Some" => FrameSize(out[i].val) <= max_frame_size

\* C9 (amended): every item returned through Limit under Framed comes from a
\* frame of at most max_frame_size bytes plus the bytes of one read.
C9_ItemsWithinBudgetPlusRead ==
    codec = "Limit" =>
        \A i \in DOMAIN out :
            out[i].tag = "Some" =>
                FrameSize(out[i].val) <= max_frame_size + MaxRead

\* C9 witness: an item from a frame over the budget was returned
C9_Witness ==
    /\ codec = "Limit" /\ max_frame_size >= hdr
    /\ \E i \in DOMAIN out :
           out[i].tag = "Some" /\ FrameSize(out[i].val) > max_frame_size

----------------------------------------------------------------------------
(* Claims about Framed as a Sink, checked under SpecSink.                  *)

\* the encodings of the items start_send accepted, in order
SinkEncoded == EncodeAll(codec, hdr, w_sent)

\* C1: whenever Framed::poll_ready returns Ready(Ok), called by itself or by
\* SendAll, w_buffer holds at most w_high_water_mark - 1 bytes, for every
\* w_high_water_mark >= 1 and every pattern of partial writes and would-block
\* answers; a longer buffer has first been drained down to that length, its
\* front bytes handed to the resource.
C1_ReadyBelowMark ==
    w_high_water_mark >= 1 =>
        /\ \A l \in sink_last.ready : l <= w_high_water_mark - 1
        /\ (sink_last.op = "poll_ready" /\ sink_last.ret.tag = "Ok") =>
              /\ sink_last.ready = {Len(w_buffer)}
              /\ Len(w_buffer) <= Min(sink_last.len0, w_high_water_mark - 1)
              /\ sink_last.len0 <= w_high_water_mark - 1 =>
                    Len(w_buffer) = sink_last.len0
              /\ io_written \o w_buffer = SinkEncoded

\* a poll_ready that found the buffer above the mark and drained it, in more
\* than one write, to exactly the threshold
C1_Witness ==
    /\ sink_last.op = "poll_ready" /\ sink_last.ret.tag = "Ok"
    /\ io_kind = "any" /\ w_high_water_mark >= 2
    /\ sink_last.len0 > w_high_water_mark
    /\ Len(w_buffer) = w_high_water_mark - 1

\* N single-byte items sent with send_all through BytesCodec under a mark
\* H >= 1 to AsyncWriteNull from a stream that is always ready
C2_Case ==
    /\ codec = "Bytes" /\ io_kind = "null" /\ st_kind = "iter"
    /\ w_high_water_mark >= 1 /\ Len(sa.items) >= 1
    /\ sink_last.op = "send_all"

\* C2: in that case send_all succeeds and the resource has received exactly
\* floor((N-1)/H) + 1 write calls, every one but the last of H bytes and the
\* last of N - H*floor((N-1)/H) bytes (H = 500, N = 999: 2 calls, the last
\* of 499 bytes).
C2_WriteCalls ==
    C2_Case =>
        LET H == w_high_water_mark
            N == Len(sa.items)
            k == (N - 1) \div H + 1
        IN  /\ sink_last.ret.tag = "Ok"
            /\ Len(io_writes) = k
            /\ \A i \in 1..(k - 1) : io_writes[i] = H
            /\ io_writes[k] = N - H * ((N - 1) \div H)
            /\ Len(io_written) = N

\* one item short of twice the mark, as 999 is of 2 * 500: two write calls,
\* the last one byte short of the mark
C2_Witness ==
    /\ C2_Case
    /\ w_high_water_mark >= 2
    /\ Len(sa.items) = 2 * w_high_water_mark - 1
    /\ io_writes = <<w_high_water_mark, w_high_water_mark - 1>>

----------------------------------------------------------------------------
(* Claims about Limit<C>, checked under SpecCodec.                         *)

\* C11: once a skip-ahead handler has reported that it cannot recover, the
\* decoder is defunct for good: decoder_defunct stays set whatever is called
\* afterwards, and that decode invocation and every later one clears the
\* buffer and fails with Defunct, never an item and never "no item yet".
C11_DefunctIsTerminal ==
    c_last.gave_up # "no" =>
        /\ decoder_defunct
        /\ skip_ahead_state.tag = "None"
        /\ c_last.op = "decode" =>
             /\ c_last.res.tag = "Defunct"
             /\ c_src = <<>>

\* a decode made after the one in which the handler gave up, with bytes
\* buffered again: they are dropped and the answer is Defunct
C11_Witness ==
    /\ c_last.gave_up = "before"
    /\ c_last.op = "decode"
    /\ c_last.pre # <<>>
    /\ c_last.res.tag = "Defunct"
    /\ c_src = <<>>

\* what the inner Length<L> makes of an item: header, then payload
Serialized(h, item) == to_be_bytes(h, Len(item)) \o item

\* C12: Limit::encode either fails and leaves the output buffer exactly as it
\* was (Inner when the inner encode fails, LimitExceeded carrying the
\* serialized size when that size exceeds max_frame_size), or succeeds and
\* appends exactly the inner codec's serialized bytes to the buffer.
C12_EncodeAtomic ==
    (IsLimit(codec) /\ c_last.op = "encode") =>
        LET item == c_last.arg
            size == hdr + Len(item)
        IN  CASE Len(item) > HeaderMax(hdr) ->
                   /\ c_last.res.tag = "Inner"
                   /\ c_dst = c_last.pre
              [] Len(item) <= HeaderMax(hdr) /\ size > max_frame_size ->
                   /\ c_last.res = Err("LimitExceeded", <<size>>)
                   /\ c_dst = c_last.pre
              [] OTHER ->
                   /\ c_last.res.tag = "Ok"
                   /\ c_dst = c_last.pre \o Serialized(hdr, item)

\* an encode refused for its size while earlier frames were still in the
\* output buffer
C12_Witness ==
    /\ IsLimit(codec) /\ c_last.op = "encode"
    /\ c_last.res.tag = "LimitExceeded"
    /\ c_last.pre # <<>>
    /\ c_dst = c_last.pre

\* C13: a poll_write that accepts zero bytes ends the drain with an I/O error
\* in that same call (no retry), and no other drain ends with that error; the
\* bytes the resource has accepted are then a prefix of the queued bytes and
\* the rest of them, at least one byte, is still in w_buffer.
C13_ZeroWriteFails ==
    /\ sink_last.zero <=> sink_last.ret.tag = "UnexpectedEof"
    /\ sink_last.zero =>
         /\ io_written \o w_buffer = SinkEncoded
         /\ w_buffer # <<>>

\* a drain that handed the resource the front of the buffer and then met a
\* write of zero bytes, as 29 bytes sent into a resource with room for 16
C13_Witness ==
    /\ sink_last.zero
    /\ sink_last.op = "poll_flush"
    /\ io_written # <<>>
    /\ Len(io_written) + Len(w_buffer) = sink_last.len0
    /\ Len(w_buffer) >= 2

\* C14: Framed::poll_close calls the resource's poll_close exactly when its
\* drain (poll_flush) returned Ready(Ok), and then w_buffer is empty; when
\* the drain is pending or fails, the resource's poll_close is not called in
\* that poll and poll_close returns what the drain returned.
C14_CloseAfterDrain ==
    sink_last.op = "poll_close" =>
        /\ sink_last.closed <=> sink_last.drain.tag = "Ok"
        /\ sink_last.closed => w_buffer = <<>>
        /\ ~sink_last.closed =>
             /\ sink_last.ret = sink_last.drain
             /\ sink_last.ret.tag \in {"Pending", "Io", "UnexpectedEof"}

\* a close that had bytes to drain, drained them all and closed the resource
C14_Witness ==
    /\ sink_last.op = "poll_close"
    /\ sink_last.closed
    /\ sink_last.len0 >= 2
    /\ io_kind = "any"
    /\ sink_last.ret.tag = "Ok"
    /\ io_written = SinkEncoded

\* C15: in every reachable state the bytes the resource has accepted, in
\* order, followed by the contents of w_buffer are the encodings of the items
\* start_send accepted, in acceptance order: no queued byte is lost,
\* duplicated or reordered, whatever the resource answers.
C15_WriteConservation ==
    io_written \o w_buffer = SinkEncoded

\* a second frame queued after a drain in which the resource accepted only a
\* part of the first
C15_Witness ==
    /\ codec = "Length" /\ io_kind = "any"
    /\ Len(w_sent) = 2
    /\ sink_last.op = "start_send"
    /\ io_written # <<>>
    /\ Len(io_written) < Len(Serialized(hdr, w_sent[1]))
    /\ Len(w_buffer) > Len(Serialized(hdr, w_sent[2]))

----------------------------------------------------------------------------
(* Further claims about Framed as a Stream, checked under SpecStream.      *)

IsItem(r) == r.tag = "Some"

\* the items poll_next has yielded so far, in order
Yielded ==
    LET items == SelectSeq(out, IsItem)
    IN  [i \in 1..Len(items) |-> items[i].val]

\* C16: with Length<L> or Lines, in every reachable state the encodings of the
\* items yielded so far followed by the contents of r_buffer are the bytes
\* read from the resource so far, in order: r_buffer starts at the first
\* undecoded byte, and the items are the input's frames in order however the
\* resource splits the bytes into reads.
C16_ReadConservation ==
    codec \in {"Lines", "Length"} =>
        /\ EncodeAll(codec, hdr, Yielded) \o r_buffer = Take(io_input, io_pos)
        /\ IsPrefix(Yielded, frames)

\* one frame yielded and a part of the next one buffered, the rest of it not
\* yet read
C16_Witness ==
    /\ codec = "Length" /\ Len(frames) = 2
    /\ Len(Yielded) = 1
    /\ r_buffer # <<>>
    /\ io_pos < Len(io_input)
    /\ Len(r_buffer) > hdr

----------------------------------------------------------------------------
(* Claims about dropping pending futures, checked under SpecCancel.        *)

\* the last poll of a Send returned Pending: the future is still held, or has
\* just been dropped
SendPending ==
    /\ st_kind = "send"
    /\ sink_last.op \in {"send", "send_drop"}
    /\ sink_last.ret.tag = "Pending"

\* C17: when poll_next returns Pending (the resource's read would block),
\* r_buffer holds every byte read and not yet returned in an item, so the
\* polls that follow yield the input's items as if no poll had been dropped;
\* when a Send is dropped while pending, its item was either never handed to
\* start_send (w_buffer holds none of its bytes, and the future held the item
\* until it was dropped) or was encoded whole, and
\* w_buffer holds exactly the bytes queued and not yet accepted by the
\* resource: never a partly queued encoding.
C17_CancellationSafe ==
    /\ (codec \in {"Bytes", "Lines", "Length"} /\ st_kind = "none") =>
         /\ rd_last.ret.tag = "Pending" =>
              EncodeAll(codec, hdr, Yielded) \o r_buffer = Take(io_input, io_pos)
         /\ (codec # "Bytes" /\ AtEnd /\ ~IoFailed) => Yielded = frames
         /\ (codec = "Bytes" /\ AtEnd /\ ~IoFailed) => OutBytes(out) = io_input
    /\ SendPending =>
         /\ sa.starts <= 1
         /\ sa.item.tag = "Some" => sa.starts = 0
         /\ (sa.live /\ ~sa.done /\ sa.starts = 0) => sa.item.tag = "Some"
         /\ sa.starts = 0 => w_sent = Take(w_sent, sa.sent0)
         /\ sa.starts = 1 =>
              w_sent = Append(Take(w_sent, sa.sent0), sa.items[sa.next - 1])
         /\ io_written \o w_buffer = SinkEncoded

\* a Send dropped while its flush was pending, a part of its frame accepted by
\* the resource and the rest of it in w_buffer
C17_Witness ==
    /\ SendPending /\ sink_last.op = "send_drop"
    /\ codec = "Length" /\ sa.starts = 1
    /\ Len(w_sent) = 1
    /\ io_written # <<>> /\ Len(w_buffer) >= 2

\* a Limit reader's input of well-formed frames, each within the budget
WithinBudget ==
    /\ codec = "Limit" /\ CutTail = <<>>
    /\ \A i \in DOMAIN frames : FrameSize(frames[i]) <= max_frame_size

\* C18: when every frame of a well-formed input has an encoded size (header +
\* payload) of at most max_frame_size, Limit::decode under Framed never fails
\* with LimitExceeded and never starts skipping, however the bytes are split
\* into reads and even when the frames buffered at once total more than
\* max_frame_size: the items are the frames, in order, then the end.
C18_NoFalsePositive ==
    WithinBudget =>
        /\ skip_ahead_state.tag = "None"
        /\ ~decoder_defunct
        /\ \A i \in DOMAIN out : out[i].tag \in {"Some", "End", "Io"}
        /\ ~IoFailed =>
             /\ IsPrefix(out, CompleteItems \o <<End>>)
             /\ AtEnd => out = CompleteItems \o <<End>>

\* one read delivered two frames that together exceed the budget; the first
\* was returned and the second is still buffered
C18_Witness ==
    /\ WithinBudget /\ Len(frames) = 2
    /\ rd_last.reads = 1 /\ Len(out) = 1 /\ out[1] = Some(frames[1])
    /\ r_buffer # <<>>
    /\ FrameSize(frames[1]) + Len(r_buffer) > max_frame_size

\* what poll_next is to return for a frame: the item, or the error of a frame
\* over the budget
ExpectedTag(payload) ==
    IF FrameSize(payload) > max_frame_size THEN "LimitExceeded" ELSE "Some"

\* C19: every oversized frame of a well-formed input makes exactly one decode
\* fail with LimitExceeded, and the decodes that follow skip it without a
\* second error: what poll_next returns is, frame by frame, the item of a frame
\* within the budget and one LimitExceeded for a frame over it, then the end.
C19_OneErrorPerOversized ==
    (codec = "Limit" /\ CutTail = <<>> /\ ~IoFailed) =>
        LET want == [i \in 1..(Len(frames) + 1) |->
                       IF i <= Len(frames) THEN ExpectedTag(frames[i])
                       ELSE "End"]
            got  == [i \in 1..Len(out) |-> out[i].tag]
        IN  /\ IsPrefix(got, want)
            /\ AtEnd => got = want

----------------------------------------------------------------------------
(* Further claims about Framed as a Sink, checked under SpecSink.          *)

\* the length a drain is to reach: the threshold of poll_ready, 0 for
\* poll_flush and poll_close
DrainTarget ==
    IF sink_last.op = "poll_ready" THEN high_water_mark(w_high_water_mark)
    ELSE 0

\* C20: a drain (poll_ready, poll_flush, the drain of poll_close) that reaches
\* its target calls the resource's poll_flush exactly once if it changed the
\* length of w_buffer and not at all if it did not; a drain that stops before
\* its target calls it not at all.
C20_FlushIssuance ==
    (sink_last.op \in {"poll_ready", "poll_flush", "poll_close"}
       /\ sink_last.ret.tag # "Panic") =>
        sink_last.flushed =
            IF Len(w_buffer) <= DrainTarget /\ Len(w_buffer) # sink_last.len0
            THEN 1 ELSE 0

\* a poll_ready that drained a part of the buffer, reached its threshold and
\* flushed the resource once
C20_Witness ==
    /\ sink_last.op = "poll_ready"
    /\ sink_last.flushed = 1
    /\ w_buffer # <<>>
    /\ Len(w_buffer) < sink_last.len0
    /\ io_flushes >= 2

\* C21 (as claimed): Framed::poll_flush returns Ready(Ok) only when the
\* resource's poll_flush has returned Ready(Ok) after the last byte the
\* resource accepted: whenever poll_flush returns Ready(Ok), nothing the
\* resource has accepted is unflushed.
C21_FlushCompletes ==
    (sink_last.op = "poll_flush" /\ sink_last.ret.tag = "Ok") => ~io_dirty

----------------------------------------------------------------------------
(* Claims about skipping in Limit<Length<L>>, checked under SpecCodec.     *)

\* C22: skip-ahead accounting of Limit<Length<L>>: preparation removes
\* exactly the header and records the declared payload length as remaining;
\* a decode made while skipping discards min(remaining, buffered) bytes and
\* lowers remaining by that amount, so that discarded + remaining is always
\* header + declared length; skipping completes in the decode in which
\* remaining reaches zero and in no other, with exactly header + declared
\* length bytes discarded for the frame.
C22_SkipAccounting ==
    codec = "Limit" =>
        LET k == c_last.skip
        IN  /\ skip_ahead_state.tag = "Some" =>
                 /\ skip_ahead_state.val[1] > 0
                 /\ k.gone + skip_ahead_state.val[1] = k.total
            /\ (c_last.op = "decode" /\ c_last.res.tag = "LimitExceeded") =>
                 /\ k.gone = hdr
                 /\ skip_ahead_state = Some(<<k.total - hdr>>)
            /\ (c_last.op = "decode" /\ k.rem0 > 0) =>
                 /\ k.step = Min(k.rem0, Len(c_last.pre))
                 /\ k.done # <<>> <=> k.rem0 <= Len(c_last.pre)
            /\ k.rem0 = 0 => (k.step = 0 /\ k.done = <<>>)
            /\ k.done # <<>> => k.done[1] = k.done[2]

\* the skipping of a frame with a long payload completed in a decode that
\* discarded only the last of its bytes: it took several decodes
C22_Witness ==
    /\ codec = "Limit" /\ c_last.op = "decode"
    /\ c_last.skip.done # <<>>
    /\ c_last.skip.done[1] >= hdr + MaxPayload
    /\ c_last.skip.step = 1

\* C23 (as claimed): whenever Limit::decode calls prepare_skip_ahead the
\* buffer holds more bytes than the header, for every max_frame_size and every
\* buffer: the assertion of prepare_skip_ahead never fails.
C23_PrepareHasPayload ==
    (codec = "Limit" /\ c_last.op = "decode") =>
        c_last.res # Panic("prepare_skip_ahead")

----------------------------------------------------------------------------
(* Claims about Limit<Length<L>> under Framed, checked under SpecStream.   *)

\* C24 (as claimed): in every decode that poll_next makes on Limit<Length<L>>,
\* a decode on an empty r_buffer while skipping included, the assertions of
\* the skipping loop hold: the amount is at most the buffered length, and it
\* is not zero when the handler asks to continue.
C24_SkipAssertionsHold ==
    codec = "Limit" =>
        /\ rd_last.ret # Panic("amount <= src.len()")
        /\ rd_last.ret # Panic("amount != 0")

\* C25: when Framed reads through Limit<Length<L>> with max_frame_size M and
\* reads of at most MaxRead bytes (8192 in the program), r_buffer never holds
\* more than M + MaxRead bytes, neither between two polls nor during one,
\* whatever the peer sends.
C25_ReadBufferBounded ==
    codec = "Limit" =>
        /\ Len(r_buffer) <= rd_last.peak
        /\ rd_last.peak <= max_frame_size + MaxRead

\* a full read arrived on top of a buffer of exactly max_frame_size bytes
C25_Witness ==
    /\ codec = "Limit" /\ max_frame_size >= hdr
    /\ rd_last.peak = max_frame_size + MaxRead
    /\ rd_last.reads >= 1 /\ rd_last.ret.tag # "Panic"

----------------------------------------------------------------------------
(* Claims about backpressure and the futures that feed the sink, checked   *)
(* under SpecSink.                                                         *)

\* the greatest encoded size among the items to send
LargestItem ==
    LET sizes == {Len(EncodeAll(codec, hdr, <<sa.items[i]>>)) :
                    i \in DOMAIN sa.items}
    IN  IF sizes = {} THEN 0 ELSE CHOOSE n \in sizes : \A m \in sizes : m <= n

\* C26 (as claimed): when items (at least one) reach the sink only through
\* Send or SendAll, w_buffer never holds more than (w_high_water_mark - 1) +
\* the greatest encoded item size, neither between two polls nor during one,
\* however slowly the resource accepts writes. For a mark of 0 the threshold
\* is read as 0, the least a threshold can be.
C26_WriteBufferBounded ==
    (st_kind # "none" /\ sa.items # <<>>) =>
        /\ Len(w_buffer) <= sink_last.peak
        /\ sink_last.peak <= Max(w_high_water_mark - 1, 0) + LargestItem


\* what C27 says of one poll of a Send future (the step from the state
\* before the poll to the state after it)
C27_Poll ==
    (sa.live /\ sink_last'.op = "send") =>
        /\ sa'.starts <= 1
        /\ sa'.starts > sa.starts <=> sink_last'.ready # {}
        /\ sa'.starts > sa.starts => sa.item.tag = "Some"
        /\ (sa.item.tag = "Some" /\ sink_last'.ret = Pending
              /\ sink_last'.ready = {}) =>
               (sa'.item = sa.item /\ w_sent' = w_sent)
        /\ sa.item.tag = "None" =>
               /\ sa'.item.tag = "None" /\ sa'.starts = sa.starts
               /\ w_sent' = w_sent /\ sink_last'.ready = {}
        /\ sink_last'.ret.tag = "Ok" => w_buffer' = <<>>

\* C27: over the polls of one Send future start_send is called at most once,
\* and only in a poll whose poll_ready returned Ready(Ok) just before; when
\* poll_ready is pending the item is kept for the next poll; once the item has
\* left the future, later polls call neither poll_ready nor start_send (they
\* only flush); and the future resolves Ok only with w_buffer empty.
C27_SendOnce == [][C27_Poll]_vars

\* a Send resolved Ok after a poll whose poll_ready was pending: the item was
\* kept, handed to start_send once in a later poll, and flushed
C27_Witness ==
    /\ st_kind = "send" /\ sink_last.op = "send" /\ sink_last.ret.tag = "Ok"
    /\ sa.kept /\ sa.starts = 1 /\ sa.item.tag = "None"
    /\ w_sent # <<>> /\ w_sent[Len(w_sent)] = sa.items[sa.next - 1]
    /\ w_buffer = <<>>


\* what SendAll has pulled from the source stream
Pulled(s) == Take(s.items, s.next - 1)

\* what C28 says of one poll of a SendAll future that has not resolved yet
C28_Poll ==
    (st_kind \in {"iter", "any"} /\ sink_last'.op = "send_all" /\ ~sa.done) =>
        LET started == Len(w_sent') - Len(w_sent)
            ret     == sink_last'.ret
        IN  /\ ret # Panic("self.buffered.is_none()")
            /\ IsPrefix(w_sent, w_sent') /\ IsPrefix(w_sent', sa.items)
            /\ started = sink_last'.oks
            /\ ret.tag \in {"Ok", "Pending"} =>
                 w_sent' \o (IF sa'.buffered.tag = "Some"
                             THEN <<sa'.buffered.val>> ELSE <<>>) = Pulled(sa')
            /\ sa'.buffered.tag = "Some" => ret = Pending
            /\ sa.buffered.tag = "Some" =>
                 /\ started >= 1 => w_sent'[Len(w_sent) + 1] = sa.buffered.val
                 /\ ret = Pending /\ started = 0 =>
                      (sa'.buffered = sa.buffered /\ sa'.next = sa.next)

\* C28: SendAll hands the items of the source stream to the sink in stream
\* order, each once and each right after a poll_ready that returned
\* Ready(Ok); an item pulled while the sink is not ready is kept in
\* SendAll::buffered, nothing more is pulled while it is there, and it is the
\* first item sent by a later poll; the assertion of try_start_send that
\* SendAll::buffered is empty never fails.
C28_SendAllInOrder == [][C28_Poll]_vars

\* an item waited in SendAll::buffered for the sink, and in the end every
\* item of the stream was sent, in order
C28_Witness ==
    /\ st_kind = "any" /\ sink_last.op = "send_all" /\ sink_last.ret.tag = "Ok"
    /\ sa.kept /\ Len(sa.items) >= 2 /\ w_sent = sa.items
    /\ io_written = SinkEncoded


\* what C29 says of one poll of a SendAll future that has not resolved yet
C29_Poll ==
    (st_kind \in {"iter", "any"} /\ sink_last'.op = "send_all" /\ ~sa.done
       /\ sink_last'.ret.tag = "Ok") =>
        /\ ~sa'.stream /\ sa'.next = Len(sa.items) + 1
        /\ w_sent' = sa.items
        /\ w_buffer' = <<>>

\* C29 (as claimed): SendAll resolves Ok only once the source stream has
\* ended, every item has been handed to the sink and a poll_flush of the sink
\* made after the last item has returned Ready(Ok), which leaves w_buffer
\* empty; a final flush that was pending is completed by a later poll before
\* Ok is returned.
C29_SendAllFlushed == [][C29_Poll]_vars


\* C30 (as claimed): poll_ready computes its threshold w_high_water_mark - 1
\* without underflow for every w_high_water_mark, 0 included: the subtraction
\* does not panic, and the threshold is not the greatest integer: poll_ready
\* returns Ready(Ok) only with w_buffer drained to at most the threshold,
\* which for a mark of 0 is 0.
C30_ThresholdWithoutUnderflow ==
    /\ sink_last.ret # Panic("attempt to subtract with overflow")
    /\ \A l \in sink_last.ready : l <= Max(w_high_water_mark - 1, 0)


----------------------------------------------------------------------------
(* Claims about the drain of the write buffer, checked under SpecDrain.    *)

\* the sum of a sequence of sizes
RECURSIVE Sum(_)
Sum(q) == IF q = <<>> THEN 0 ELSE q[1] + Sum(Advance(q, 1))

\* poll_flush has returned Ready(Ok) and w_buffer is empty
Drained ==
    /\ sink_last.op = "poll_flush" /\ sink_last.ret.tag = "Ok"
    /\ w_buffer = <<>>

\* every write the resource accepted took bytes off the front of w_buffer, at
\* least one each: w_buffer got shorter by what was written
DrainProgress ==
    /\ \A i \in DOMAIN io_writes : io_writes[i] >= 1
    /\ Sum(io_writes) = Len(io_written)
    /\ Len(w_buffer) = Len(SinkEncoded) - Sum(io_writes)
    /\ sink_last.op = "poll_flush" =>
         (sink_last.ret.tag = "Ok" => w_buffer = <<>>)

----------------------------------------------------------------------------
(* Claims about the end of input under Limit<Length<L>>, checked under     *)
(* SpecStream.                                                             *)

\* C32 (as claimed): when the resource reports the end of input while
\* Limit<Length<L>> is still skipping a frame over the budget, every buffered
\* byte has been discarded and poll_next returns the end of the sequence, not
\* an UnexpectedEof error (nor anything else) for the unfinished frame.
C32_CleanEndWhileSkipping ==
    (codec = "Limit" /\ rd_last.ended /\ skip_ahead_state.tag = "Some") =>
        /\ r_buffer = <<>>
        /\ rd_last.ret = End

====
